---- MODULE Spec2Model ----
(***************************************************************************)
(* TalkStream launchers (tray_app.py and main.py): the process controller  *)
(* around the global talkstream_process slot, and the audio activity       *)
(* monitor of tray_app.py.                                                 *)
(*                                                                         *)
(* A controller call (toggle_talkstream, stop_talkstream, select_window)   *)
(* runs on the thread that triggered it: the keyboard hook thread or the   *)
(* tray-menu thread.  Each call is cut at the points where it blocks or    *)
(* reads/writes the shared slot, so that two calls can interleave the way  *)
(* two Python threads can.                                                 *)
(***************************************************************************)
EXTENDS Integers, Sequences, FiniteSets, TLC

\* ------------------------------------------------------------------ bounds
\* Number of worker processes the controller may spawn in one behaviour.
MaxWorkers == 3
\* Number of helper (child) processes a worker may have.
MaxHelpers == 1
\* Number of top-level windows the user can pick from.
MaxHwnd == 2
\* Number of patched stream writes in one behaviour.
MaxWrites == 3
\* Last tick of the clock (one tick is 0.1 s).
MaxTime == 6
\* Lines of output a worker's stdout/stderr pipes buffer before a write blocks.
PipeCap == 2

\* time.sleep(0.2) in reset_audio_status and time.sleep(0.1) in
\* monitor_audio_activity, in ticks
QuiescenceTicks == 2
PollTicks == 1

None == 0
\* the keyboard hook thread, which runs the hotkey callbacks, and the thread
\* that runs main(): in tray_app.py it runs the tray icon's message loop and
\* with it the menu callbacks, and in both launchers the exit cleanup
Threads == {"hotkey", "menu"}
Workers == 1..MaxWorkers
Helpers == 1..MaxHelpers
Hwnds == 1..MaxHwnd
Modes == {"camera", "screen", "window", "none"}

VARIABLES
    app,                 \* which launcher runs: "tray" (tray_app.py) or "main" (main.py)
    talkstream_process,  \* the global slot: None or the pid of a Popen handle
    selected_window,     \* tray_app.py global: None or a hwnd
    window_config,       \* content of window_config.json
    nextPid,             \* pid the next Popen gets; 1..nextPid-1 were spawned
    alive,               \* spawned workers that have not exited
    cmdMode,             \* the --mode argument of the most recent Popen
    pc,                  \* pc[t]: where thread t is inside its call
    op,                  \* op[t]: the call thread t is executing
    mode,                \* mode[t]: the mode argument of t's toggle/start
    proc,                \* proc[t]: `parent` inside terminate_process
    kids,                \* kids[t]: descendants of `parent` still alive
    process,             \* process[t]: `process` inside start_talkstream/launch
    wrote,               \* wrote[t]: this start call wrote window_config.json
    sig,                 \* sig[t]: how the worker answered parent.terminate()
    term,                \* term[t]: how terminate_process ended
    seen,                \* seen[t]: what toggle's is_process_running check saw
    started,             \* started[t]: how start_talkstream/launch went
    faulted,             \* an OS call has raised in this behaviour
    now,                 \* the clock, in ticks
    audio_status_queue,  \* the queue.Queue of True/False statuses
    audio_active,        \* the flag the monitor loop publishes
    timers,              \* wake-up times of the sleeping reset_audio_status threads
    nextPoll,            \* when monitor_audio_activity wakes up next
    writes,              \* patched_write calls so far
    lastWrite,           \* time of the latest patched_write (-1: none yet)
    burst,               \* all writes so far were less than the window apart
    idleEdges,           \* Active -> Idle transitions of audio_active so far
    icon,                \* colour of the tray icon: "inactive" (gray) or "active" (green)
    calls,               \* calls[t]: the OS requests of the terminate_process call t is in
    readers,             \* workers whose stdout/stderr have log_output/log_errors threads
    pipe,                \* pipe[p]: output of worker p buffered in its pipes, unread
    invalid,             \* Popen handles whose poll() raises
    phase,               \* main(): "boot", "boot_voice", "running", "cleanup", "exited", "crashed"
    hooks,               \* hooks[b]: binding b is registered ("on"), was refused, or unused ("-")
    lastCall,            \* the latest call of patched_open / patched_write, as its caller saw it
    patched              \* an output stream whose write is patched_write is open

ctl == <<talkstream_process, selected_window, window_config, nextPid, alive, cmdMode>>
locals == <<pc, op, mode, proc, kids, process, wrote, sig, term, seen, started, calls>>
audio == <<now, audio_status_queue, audio_active, timers, nextPoll, writes,
           lastWrite, burst, idleEdges, icon>>
\* state that only the launcher's start-up and exit, the workers' output and
\* the patched PyAudio entry points change
outer == <<pipe, invalid, phase, hooks, lastCall, patched>>
vars == <<app, ctl, locals, faulted, audio, readers, outer>>

\* ------------------------------------------------------------- pure helpers

\* process.poll() on a Popen handle: None while the process runs, its return
\* code once it has exited; raises when the handle cannot be inspected
Poll(p) ==
    IF p \in invalid THEN "raises"
    ELSE IF p \in alive THEN "none"
    ELSE "returncode"

\* is_process_running without the try/except: what does not poll as exited
\* counts as running
IsProcessRunningUnguarded(p) == p # None /\ Poll(p) # "returncode"

\* is_process_running(process): False for None, `process.poll() is None`
\* otherwise, False when poll() raises
IsProcessRunning(p) ==
    IF p = None THEN FALSE
    ELSE IF Poll(p) = "raises" THEN FALSE
    ELSE Poll(p) = "none"

\* win32gui.GetWindowText(hwnd)
GetWindowText(h) == <<"title", h>>

\* create_window_config(hwnd): the JSON object written
CreateWindowConfig(h) ==
    IF h = None THEN [type |-> "fullscreen"]
    ELSE [type |-> "window", hwnd |-> h, title |-> GetWindowText(h)]

\* start_talkstream, "Create window config if needed": whether this mode writes
\* window_config.json, and what it writes
WritesConfig(m, sel) ==
    \/ m = "window" /\ sel # None
    \/ m = "screen"
    \/ m = "none"
ConfigForMode(m, sel) ==
    IF m = "window" THEN CreateWindowConfig(sel)
    ELSE IF m = "screen" THEN CreateWindowConfig(None)
    ELSE [type |-> "none"]

\* start_talkstream's result after the grace delay (StartResultUnchecked: the
\* handle is returned without the liveness check)
StartResultUnchecked(p) == p
StartResult(p) == IF IsProcessRunning(p) THEN p ELSE None

\* what toggle_talkstream's liveness check saw: the owned worker running, no
\* worker alive at all, or nothing owned running while some worker is alive
Sight ==
    IF IsProcessRunning(talkstream_process) THEN "running"
    ELSE IF alive = {} THEN "quiet"
    ELSE "unowned"

\* modes a trigger can pass to toggle_talkstream: main.py's --mode choices;
\* in tray_app.py the default --mode and the voice hotkey, or one of the three
\* "Start (...)" menu items
CallModes(t) ==
    IF app = "main" THEN {"camera", "screen", "none"}
    ELSE IF t = "hotkey" THEN {"screen", "none"}
    ELSE {"screen", "window", "none"}

\* threads that run toggle_talkstream callbacks in the running launcher
Live(t) == app = "tray" \/ t = "hotkey"

\* the hotkeys main() registers: the --hotkey combination and, in tray_app.py,
\* the voice-only hotkey
Hotkeys == {"ctrl+alt+g", "ctrl+alt+v"}
Bindings == IF app = "tray" THEN Hotkeys ELSE {"ctrl+alt+g"}

\* no patched call has been made yet
NoCall == [fn |-> "-", fault |-> "-", orig |-> 0, first |-> "-", result |-> "-"]

\* every call in flight may still spawn one worker
Budget == (nextPid - 1) + Cardinality({t \in Threads : pc[t] # "idle"}) < MaxWorkers

AllIdle == \A t \in Threads : pc[t] = "idle"

\* ------------------------------------------------------------------- Init

\* the module globals of the launcher that runs
Globals ==
    /\ app \in {"tray", "main"}
    /\ talkstream_process = None
    /\ selected_window = None
    /\ window_config = [type |-> "absent"]
    /\ nextPid = 1
    /\ alive = {}
    /\ cmdMode = "-"
    /\ pc = [t \in Threads |-> "idle"]
    /\ op = [t \in Threads |-> "-"]
    /\ mode = [t \in Threads |-> "-"]
    /\ proc = [t \in Threads |-> None]
    /\ kids = [t \in Threads |-> {}]
    /\ process = [t \in Threads |-> None]
    /\ wrote = [t \in Threads |-> FALSE]
    /\ sig = [t \in Threads |-> "-"]
    /\ term = [t \in Threads |-> "-"]
    /\ seen = [t \in Threads |-> "-"]
    /\ started = [t \in Threads |-> "-"]
    /\ faulted = FALSE
    /\ now = 0
    /\ audio_status_queue = <<>>
    /\ audio_active = FALSE
    /\ timers = <<>>
    /\ nextPoll = 0
    /\ writes = 0
    /\ lastWrite = -1
    /\ burst = TRUE
    /\ idleEdges = 0
    /\ icon = "inactive"
    /\ calls = [t \in Threads |-> <<>>]
    /\ readers = {}
    /\ pipe = [p \in Workers |-> 0]
    /\ invalid = {}
    /\ lastCall = NoCall
    /\ patched = FALSE

\* the launcher up and running: main() has registered its hotkeys
Init ==
    /\ Globals
    /\ phase = "running"
    /\ hooks = [b \in Hotkeys |-> IF b \in Bindings THEN "on" ELSE "-"]

\* the launcher as main() is entered
InitBoot ==
    /\ Globals
    /\ phase = "boot"
    /\ hooks = [b \in Hotkeys |-> "-"]

\* ------------------------------------------------------- start-up of main()

\* register_hotkey(hotkey, mode): keyboard.add_hotkey registers the binding or
\* raises.  tray_app.py catches and prints the failure and goes on to the
\* voice-only hotkey (enabled, the default); in main.py the exception leaves
\* main(), which ends the program.
RegisterHotkey ==
    /\ phase \in {"boot", "boot_voice"}
    /\ LET b == IF phase = "boot" THEN "ctrl+alt+g" ELSE "ctrl+alt+v" IN
       \E registered \in BOOLEAN :
         /\ hooks' = [hooks EXCEPT ![b] = IF registered THEN "on" ELSE "refused"]
         /\ phase' = IF app = "main"
                        THEN (IF registered THEN "running" ELSE "crashed")
                        ELSE (IF phase = "boot" THEN "boot_voice" ELSE "running")
    /\ UNCHANGED <<pipe, invalid, lastCall, patched, readers, audio, app, ctl, locals, faulted>>

\* the modes of the hotkeys that are registered: --mode for the main hotkey
\* (one of main.py's choices; tray_app.py's default), "none" for the voice hotkey
HookModes ==
    (IF hooks["ctrl+alt+g"] = "on"
       THEN (IF app = "main" THEN {"camera", "screen", "none"} ELSE {"screen"})
       ELSE {})
    \cup (IF hooks["ctrl+alt+v"] = "on" THEN {"none"} ELSE {})

\* ------------------------------------------------------------ call entries

Goto(t, l) == pc' = [pc EXCEPT ![t] = l]

\* a hotkey press or a "Start (...)" menu click: toggle_talkstream(m)
CallToggle(t) ==
    /\ Live(t) /\ pc[t] = "idle" /\ Budget
    /\ \E m \in CallModes(t) : mode' = [mode EXCEPT ![t] = m]
    /\ op' = [op EXCEPT ![t] = "toggle"]
    /\ Goto(t, "tg_check")
    /\ UNCHANGED <<outer, readers, calls, audio, app, ctl, proc, kids, process, wrote, sig, term, seen, started,
                   faulted>>

\* the "Stop TalkStream" menu item: stop_talkstream()
CallStop(t) ==
    /\ app = "tray" /\ t = "menu" /\ pc[t] = "idle"
    /\ op' = [op EXCEPT ![t] = "stop"]
    /\ Goto(t, "stop_check")
    /\ UNCHANGED <<outer, readers, calls, audio, app, ctl, mode, proc, kids, process, wrote, sig, term, seen,
                   started, faulted>>

\* a window menu item: select_window(h)
CallSelect(t) ==
    /\ app = "tray" /\ t = "menu" /\ pc[t] = "idle" /\ Budget
    /\ \E h \in Hwnds : selected_window' = h
    /\ op' = [op EXCEPT ![t] = "select"]
    /\ IF IsProcessRunning(talkstream_process)
         THEN Goto(t, "stop_check")
         ELSE Goto(t, "ret")
    /\ UNCHANGED <<outer, readers, calls, audio, app, talkstream_process, window_config, nextPid, alive, cmdMode,
                   mode, proc, kids, process, wrote, sig, term, seen, started, faulted>>

Call(t) == CallToggle(t) \/ CallStop(t) \/ CallSelect(t)

\* ------------------------------------------------------------- call steps

\* the call's effects are complete; the thread goes back to waiting for a trigger
Return(t) ==
    /\ pc[t] = "ret"
    /\ pc' = [pc EXCEPT ![t] = "idle"]
    /\ op' = [op EXCEPT ![t] = "-"]
    /\ mode' = [mode EXCEPT ![t] = "-"]
    /\ proc' = [proc EXCEPT ![t] = None]
    /\ kids' = [kids EXCEPT ![t] = {}]
    /\ process' = [process EXCEPT ![t] = None]
    /\ wrote' = [wrote EXCEPT ![t] = FALSE]
    /\ sig' = [sig EXCEPT ![t] = "-"]
    /\ term' = [term EXCEPT ![t] = "-"]
    /\ seen' = [seen EXCEPT ![t] = "-"]
    /\ started' = [started EXCEPT ![t] = "-"]
    /\ calls' = [calls EXCEPT ![t] = <<>>]
    /\ UNCHANGED <<outer, readers, audio, app, ctl, faulted>>

\* toggle_talkstream: `if is_process_running(talkstream_process)`
\* tray_app.py goes through stop_talkstream / start_talkstream, main.py calls
\* terminate_process / launch_gemini_liveapi directly.
ToggleCheck(t) ==
    /\ pc[t] = "tg_check"
    /\ seen' = [seen EXCEPT ![t] = Sight]
    /\ IF IsProcessRunning(talkstream_process)
         THEN Goto(t, IF app = "tray" THEN "stop_check" ELSE "term_signal")
         ELSE Goto(t, IF app = "tray" THEN "start_prepare" ELSE "launch_check")
    /\ UNCHANGED <<outer, readers, calls, audio, app, ctl, op, mode, proc, kids, process, wrote, sig, term,
                   started, faulted>>

\* stop_talkstream without its liveness check: terminate_process is called and
\* the slot cleared whatever the slot holds
StopCheckAlways(t) ==
    /\ pc[t] = "stop_check"
    /\ Goto(t, "term_signal")
    /\ UNCHANGED <<outer, readers, calls, audio, app, ctl, op, mode, proc, kids, process, wrote, sig, term,
                   seen, started, faulted>>

\* stop_talkstream: `if is_process_running(talkstream_process)`; when nothing is
\* running the function returns (select_window then goes on to start_talkstream)
StopCheck(t) ==
    /\ pc[t] = "stop_check"
    /\ IF IsProcessRunning(talkstream_process)
         THEN Goto(t, "term_signal") /\ mode' = mode
         ELSE IF op[t] = "select"
         THEN Goto(t, "start_prepare") /\ mode' = [mode EXCEPT ![t] = "window"]
         ELSE Goto(t, "ret") /\ mode' = mode
    /\ UNCHANGED <<outer, readers, calls, audio, app, ctl, op, proc, kids, process, wrote, sig, term, seen,
                   started, faulted>>

\* main.py launch_gemini_liveapi: "If already running, terminate it"
LaunchCheck(t) ==
    /\ pc[t] = "launch_check"
    /\ IF IsProcessRunning(talkstream_process)
         THEN Goto(t, "term_signal")
         ELSE Goto(t, "start_prepare")
    /\ UNCHANGED <<outer, readers, calls, audio, app, ctl, op, mode, proc, kids, process, wrote, sig, term, seen,
                   started, faulted>>

\* one OS request of terminate_process, as calls[t] records it: terminate() on
\* a descendant or on the parent, wait_procs([parent]), kill() on the parent;
\* raised: the request raised an exception
Req(c, on, h, r) == [call |-> c, target |-> on, id |-> h, raised |-> r]

\* `for child in parent.children(recursive=True)`: child.terminate() for every
\* descendant in turn, an exception from one of them being swallowed
RECURSIVE ChildCalls(_, _)
ChildCalls(desc, failed) ==
    IF desc = {} THEN <<>>
    ELSE LET h == CHOOSE x \in desc : \A y \in desc : x <= y IN
         <<Req("terminate", "child", h, h \in failed)>> \o ChildCalls(desc \ {h}, failed)

\* the requests of the signal phase with the parent asked first
SignalCallsParentFirst(desc, failed, praised) ==
    <<Req("terminate", "parent", 0, praised)>> \o ChildCalls(desc, failed)

\* the requests of the signal phase: the descendants, then parent.terminate()
SignalCalls(desc, failed, praised) ==
    ChildCalls(desc, failed) \o <<Req("terminate", "parent", 0, praised)>>

\* terminate_process(talkstream_process), up to the wait: psutil.Process(pid),
\* child.terminate() for every descendant, parent.terminate().
\*   - None: returns at once;
\*   - the pid is gone: psutil.Process raises NoSuchProcess, caught by the outer except;
\*   - the lookup or parent.terminate() raises: caught by the outer except, so the
\*     wait and the kill are skipped;
\*   - desc are the descendants enumerated; a child whose terminate() raises
\*     (failed), or that ignores the request, stays alive (left: the descendants
\*     of the worker alive after this phase);
\*   - when the lookup (or the enumeration) raises nothing has been requested,
\*     when parent.terminate() raises the descendants have been asked before;
\*   - the worker answers the request by exiting, or ignores it.
TermSignal(t) ==
    /\ pc[t] = "term_signal"
    /\ LET p == talkstream_process IN
       IF p = None
       THEN /\ term' = [term EXCEPT ![t] = "no_process"]
            /\ Goto(t, "stop_clear")
            /\ UNCHANGED <<alive, proc, kids, sig, faulted, calls>>
       ELSE \E left \in SUBSET Helpers :
            /\ proc' = [proc EXCEPT ![t] = p]
            /\ kids' = [kids EXCEPT ![t] = left]
            /\ IF p \notin alive
                 THEN /\ term' = [term EXCEPT ![t] = "no_such_process"]
                      /\ Goto(t, "stop_clear")
                      /\ UNCHANGED <<alive, sig, faulted, calls>>
                 ELSE \E r \in {"raises", "exit", "ignore"}, lookup \in BOOLEAN,
                         failed \in SUBSET left, desc \in SUBSET Helpers :
                      /\ left \subseteq desc
                      /\ lookup => (r = "raises" /\ desc = {})
                      /\ calls' = [calls EXCEPT ![t] =
                                     IF lookup THEN <<>>
                                     ELSE SignalCalls(desc, failed, r = "raises")]
                      /\ IF r = "raises"
                         THEN /\ faulted' = TRUE
                              /\ term' = [term EXCEPT ![t] = r]
                              /\ Goto(t, "stop_clear")
                              /\ UNCHANGED <<alive, sig>>
                         ELSE /\ alive' = IF r = "exit" THEN alive \ {p} ELSE alive
                              /\ sig' = [sig EXCEPT ![t] = r]
                              /\ Goto(t, "term_wait")
                              /\ UNCHANGED <<faulted, term>>
    /\ UNCHANGED <<outer, readers, audio, app, talkstream_process, selected_window,
                   window_config, nextPid, cmdMode, op, mode, process, wrote, seen, started>>

\* what the force-kill phase does to a parent that is in still_alive after
\* psutil.wait_procs([parent], timeout=3): p.kill() kills it, or raises and the
\* exception is swallowed (KillOutcomesNoKill: the kill loop left out)
KillOutcomesNoKill == {"left_alive"}
KillOutcomes == {"killed", "kill_raises"}

\* psutil.wait_procs([parent], timeout=3) and the kill of still_alive
TermWait(t) ==
    /\ pc[t] = "term_wait"
    /\ LET p == proc[t] IN
       IF p \in alive
       THEN \E k \in KillOutcomes :
              /\ term' = [term EXCEPT ![t] = k]
              /\ alive' = IF k = "killed" THEN alive \ {p} ELSE alive
              /\ faulted' = IF k = "kill_raises" THEN TRUE ELSE faulted
              /\ calls' = [calls EXCEPT ![t] =
                             calls[t] \o <<Req("wait", "parent", 0, FALSE),
                                           Req("kill", "parent", 0, k # "killed")>>]
       ELSE /\ term' = [term EXCEPT ![t] = "gone"]
            /\ calls' = [calls EXCEPT ![t] = Append(calls[t], Req("wait", "parent", 0, FALSE))]
            /\ UNCHANGED <<alive, faulted>>
    /\ Goto(t, "stop_clear")
    /\ UNCHANGED <<outer, readers, audio, app, talkstream_process, selected_window,
                   window_config, nextPid, cmdMode, op, mode, proc, kids, process, wrote, sig,
                   seen, started>>

\* `talkstream_process = None` after terminate_process returned (its record of
\* requests ends with it); select_window then calls start_talkstream(mode="window")
StopClear(t) ==
    /\ pc[t] = "stop_clear"
    /\ talkstream_process' = None
    /\ calls' = [calls EXCEPT ![t] = <<>>]
    /\ IF op[t] = "select"
         THEN Goto(t, "start_prepare") /\ mode' = [mode EXCEPT ![t] = "window"]
         ELSE Goto(t, "ret") /\ mode' = mode
    /\ UNCHANGED <<outer, readers, audio, app, selected_window, window_config, nextPid, alive, cmdMode, op,
                   proc, kids, process, wrote, sig, term, seen, started, faulted>>

\* the result of the start is dropped by every caller
DeliverDropped(t, r) ==
    /\ talkstream_process' = talkstream_process
    /\ Goto(t, "ret")

\* only a handle is stored: a failed start leaves the slot as it was
DeliverKept(t, r) ==
    /\ talkstream_process' = IF op[t] = "toggle" /\ r # None THEN r ELSE talkstream_process
    /\ Goto(t, "ret")

\* what the caller of start_talkstream / launch_gemini_liveapi does with the
\* result r: toggle_talkstream stores it in the slot, select_window drops it
Deliver(t, r) ==
    /\ talkstream_process' = IF op[t] = "toggle" THEN r ELSE talkstream_process
    /\ Goto(t, "ret")

\* start_talkstream up to the Popen: os.path.exists(gemini_script), which the
\* file system decides, and the config file; launch_gemini_liveapi has the
\* script check only
StartPrepare(t) ==
    /\ pc[t] = "start_prepare"
    /\ \E script_exists \in BOOLEAN :
       IF ~script_exists
         THEN /\ Deliver(t, None)
              /\ started' = [started EXCEPT ![t] = "no_script"]
              /\ UNCHANGED <<window_config, wrote>>
         ELSE /\ Goto(t, "start_spawn")
              /\ UNCHANGED <<talkstream_process, started>>
              /\ IF app = "tray" /\ WritesConfig(mode[t], selected_window)
                   THEN /\ window_config' = ConfigForMode(mode[t], selected_window)
                        /\ wrote' = [wrote EXCEPT ![t] = TRUE]
                   ELSE UNCHANGED <<window_config, wrote>>
    /\ UNCHANGED <<outer, readers, calls, audio, app, selected_window, nextPid, alive, cmdMode, op, mode, proc,
                   kids, process, sig, term, seen, faulted>>

\* subprocess.Popen(cmd, ...): raises, or creates the worker.  tray_app.py then
\* starts the log_output and log_errors threads on the worker's pipes and
\* sleeps through the grace delay; main.py returns the handle at once.
StartSpawn(t) ==
    /\ pc[t] = "start_spawn"
    /\ nextPid <= MaxWorkers
    /\ \E r \in {"popen_raises", "ok"} :
       /\ started' = [started EXCEPT ![t] = r]
       /\ IF r = "popen_raises"
          THEN /\ faulted' = TRUE
               /\ Deliver(t, None)
               /\ UNCHANGED <<nextPid, alive, cmdMode, process, readers>>
          ELSE /\ nextPid' = nextPid + 1
               /\ alive' = alive \cup {nextPid}
               /\ cmdMode' = mode[t]
               /\ process' = [process EXCEPT ![t] = nextPid]
               /\ readers' = IF app = "tray" THEN readers \cup {nextPid} ELSE readers
               /\ UNCHANGED faulted
               /\ IF app = "tray"
                    THEN Goto(t, "start_grace") /\ UNCHANGED talkstream_process
                    ELSE Deliver(t, nextPid)
    /\ UNCHANGED <<outer, calls, audio, app, selected_window, window_config, op, mode, proc, kids, wrote,
                   sig, term, seen>>

\* start_talkstream after time.sleep(1): the liveness check and the return
StartGrace(t) ==
    /\ pc[t] = "start_grace"
    /\ Deliver(t, StartResult(process[t]))
    /\ UNCHANGED <<outer, readers, calls, audio, app, selected_window, window_config, nextPid, alive, cmdMode, op,
                   mode, proc, kids, process, wrote, sig, term, seen, started, faulted>>

Step(t) ==
    \/ ToggleCheck(t)
    \/ StopCheck(t)
    \/ LaunchCheck(t)
    \/ TermSignal(t)
    \/ TermWait(t)
    \/ StopClear(t)
    \/ StartPrepare(t)
    \/ StartSpawn(t)
    \/ StartGrace(t)
    \/ Return(t)

\* ------------------------------------------------------------ exit of main()

\* keyboard.unhook_all()
Unhooked == [b \in Hotkeys |-> IF hooks[b] = "on" THEN "off" ELSE hooks[b]]

\* the launcher is told to exit and main() enters its cleanup.  tray_app.py:
\* the "Exit" item stops the icon, setup_tray_icon returns and main() calls
\* stop_talkstream().  main.py: Ctrl+C interrupts the sleep loop, main() calls
\* keyboard.unhook_all() and then checks is_process_running(talkstream_process).
ExitCleanup ==
    /\ phase = "running"
    /\ pc["menu"] = "idle"
    /\ phase' = "cleanup"
    /\ hooks' = IF app = "main" THEN Unhooked ELSE hooks
    /\ op' = [op EXCEPT !["menu"] = "exit"]
    /\ Goto("menu", "stop_check")
    /\ UNCHANGED <<pipe, invalid, lastCall, patched, readers, calls, audio, app, ctl, mode,
                   proc, kids, process, wrote, sig, term, seen, started, faulted>>

\* the cleanup is over when stop_talkstream() has returned (tray_app.py, which
\* then calls keyboard.unhook_all()) or terminate_process has (main.py, which
\* does not clear the slot)
CleanupOver ==
    /\ op["menu"] = "exit"
    /\ pc["menu"] = "ret" \/ (app = "main" /\ pc["menu"] = "stop_clear")

\* main() returns and the process ends, and with it the daemon thread of the
\* keyboard hook, whatever it is doing; the workers are processes of their own
ExitFinish ==
    /\ phase = "cleanup"
    /\ CleanupOver
    /\ phase' = "exited"
    /\ hooks' = Unhooked
    /\ UNCHANGED <<pipe, invalid, lastCall, patched, readers, audio, app, ctl, locals,
                   faulted>>

\* ------------------------------------------------------------- environment

\* a worker exits on its own (crash, missing credentials, normal end)
WorkerExit ==
    /\ \E p \in alive : alive' = alive \ {p}
    /\ UNCHANGED <<outer, readers, audio, app, talkstream_process, selected_window, window_config, nextPid,
                   cmdMode, locals, faulted>>

\* a running worker writes a line to its stdout or stderr; with PipeCap lines
\* buffered the write blocks until a reader takes something out
WorkerOutput ==
    /\ \E p \in alive :
         /\ pipe[p] < PipeCap
         /\ pipe' = [pipe EXCEPT ![p] = @ + 1]
    /\ UNCHANGED <<invalid, phase, hooks, lastCall, patched, readers, audio, app, ctl, locals,
                   faulted>>

\* log_output / log_errors: proc.stdout.readline() returns one buffered line
DrainOutput ==
    /\ \E p \in readers :
         /\ pipe[p] > 0
         /\ pipe' = [pipe EXCEPT ![p] = @ - 1]
    /\ UNCHANGED <<invalid, phase, hooks, lastCall, patched, readers, audio, app, ctl, locals,
                   faulted>>

\* the handle of a spawned worker stops being inspectable: from now on its
\* poll() raises
HandleInvalidated ==
    /\ \E p \in (1..(nextPid - 1)) \ invalid : invalid' = invalid \cup {p}
    /\ UNCHANGED <<pipe, phase, hooks, lastCall, patched, readers, audio, app, ctl, locals,
                   faulted>>

\* -------------------------------------------------------- activity monitor

\* patched_write: audio_status_queue.put(True) and a reset_audio_status thread
\* that sleeps for the quiescence window
PatchedWrite ==
    /\ writes < MaxWrites
    /\ writes' = writes + 1
    /\ audio_status_queue' = Append(audio_status_queue, TRUE)
    /\ timers' = Append(timers, now + QuiescenceTicks)
    /\ lastWrite' = now
    /\ burst' = (burst /\ (lastWrite = -1 \/ now - lastWrite < QuiescenceTicks))
    /\ UNCHANGED <<now, audio_active, nextPoll, idleEdges, icon>>
    /\ UNCHANGED <<outer, readers, app, ctl, locals, faulted>>

\* reset_audio_status after its sleep: audio_status_queue.put(False)
ResetAudioStatus ==
    /\ timers # <<>>
    /\ Head(timers) <= now
    /\ timers' = Tail(timers)
    /\ audio_status_queue' = Append(audio_status_queue, FALSE)
    /\ UNCHANGED <<now, audio_active, nextPoll, writes, lastWrite, burst, idleEdges, icon>>
    /\ UNCHANGED <<outer, readers, app, ctl, locals, faulted>>

\* what one invocation of the original PyAudio.open or stream.write can do
Outcomes == {"ok", "raises"}

\* patched_open(output=...): original_open, then for an output stream the write
\* method is replaced; anything raised inside the try (by original_open or by
\* the instrumentation, fault "instr") is answered by `return original_open(...)`
PatchedOpenCall ==
    /\ \E output \in BOOLEAN, o1 \in Outcomes, o2 \in Outcomes,
          fault \in {"none", "instr"} :
         /\ fault = "instr" => (output /\ o1 = "ok")
         /\ IF o1 = "ok" /\ fault = "none"
              THEN /\ lastCall' = [fn |-> "open", fault |-> fault, orig |-> 1,
                                   first |-> o1, result |-> o1]
                   /\ patched' = (patched \/ output)
              ELSE /\ lastCall' = [fn |-> "open", fault |-> fault, orig |-> 2,
                                   first |-> o1, result |-> o2]
                   /\ patched' = patched
    /\ UNCHANGED <<pipe, invalid, phase, hooks, readers, audio, app, ctl, locals, faulted>>

\* patched_write(data) on a patched stream: audio_status_queue.put(True) (fault
\* "put" when it raises), a reset_audio_status thread started (fault "thread"
\* when that raises), original_write; anything raised inside the try (by the
\* instrumentation or by original_write) is answered by `return original_write(...)`
PatchedWriteCall ==
    /\ patched
    /\ writes < MaxWrites
    /\ \E fault \in {"none", "put", "thread"}, o1 \in Outcomes, o2 \in Outcomes :
         /\ audio_status_queue' = IF fault = "put" THEN audio_status_queue
                                   ELSE Append(audio_status_queue, TRUE)
         /\ timers' = IF fault = "none" THEN Append(timers, now + QuiescenceTicks)
                       ELSE timers
         /\ IF fault = "none" /\ o1 = "raises"
              THEN lastCall' = [fn |-> "write", fault |-> fault, orig |-> 2,
                                first |-> o1, result |-> o2]
              ELSE lastCall' = [fn |-> "write", fault |-> fault, orig |-> 1,
                                first |-> o1, result |-> o1]
    /\ writes' = writes + 1
    /\ lastWrite' = now
    /\ burst' = (burst /\ (lastWrite = -1 \/ now - lastWrite < QuiescenceTicks))
    /\ UNCHANGED <<now, audio_active, nextPoll, idleEdges, icon>>
    /\ UNCHANGED <<pipe, invalid, phase, hooks, patched, readers, app, ctl, locals, faulted>>

\* the status the monitor loop publishes after one get(block=False)
PolledStatusLatest(q, cur) == IF q = <<>> THEN cur ELSE q[Len(q)]
PolledStatusSticky(q, cur) == IF q = <<>> THEN cur ELSE (cur \/ Head(q))
PolledStatus(q, cur) == IF q = <<>> THEN cur ELSE Head(q)

\* one round of monitor_audio_activity: at most one status is taken from the
\* queue, the icon is redrawn if the owned worker is running, then the loop
\* sleeps for the poll interval
MonitorPoll ==
    /\ nextPoll <= now
    /\ audio_active' = PolledStatus(audio_status_queue, audio_active)
    /\ audio_status_queue' =
         IF audio_status_queue = <<>> THEN <<>> ELSE Tail(audio_status_queue)
    /\ idleEdges' = IF audio_active /\ ~audio_active' /\ idleEdges < 2
                      THEN idleEdges + 1 ELSE idleEdges
    /\ icon' = IF IsProcessRunning(talkstream_process)
                 THEN (IF audio_active' THEN "active" ELSE "inactive")
                 ELSE icon
    /\ nextPoll' = now + PollTicks
    /\ UNCHANGED <<now, timers, writes, lastWrite, burst>>
    /\ UNCHANGED <<outer, readers, app, ctl, locals, faulted>>

\* time passes once every thread whose sleep is over has run
Tick ==
    /\ now < MaxTime
    /\ nextPoll > now
    /\ IF timers = <<>> THEN TRUE ELSE Head(timers) > now
    /\ now' = now + 1
    /\ UNCHANGED <<audio_status_queue, audio_active, timers, nextPoll, writes,
                   lastWrite, burst, idleEdges, icon>>
    /\ UNCHANGED <<outer, readers, app, ctl, locals, faulted>>

\* time passes beyond the last tick the clock counts: the clock stays at
\* MaxTime and every wake-up time and time stamp moves one tick closer instead
TickPast ==
    /\ now = MaxTime
    /\ nextPoll > now
    /\ IF timers = <<>> THEN TRUE ELSE Head(timers) > now
    /\ timers' = [i \in DOMAIN timers |-> timers[i] - 1]
    /\ nextPoll' = nextPoll - 1
    /\ lastWrite' = IF lastWrite > 0 THEN lastWrite - 1 ELSE lastWrite
    /\ UNCHANGED <<now, audio_status_queue, audio_active, writes, burst, idleEdges, icon>>
    /\ UNCHANGED <<outer, readers, app, ctl, locals, faulted>>

\* ---------------------------------------------------------- specifications

\* calls from the hotkey thread and the tray-menu thread interleave freely
Next ==
    \/ \E t \in Threads : Call(t)
    \/ \E t \in Threads : Step(t)
    \/ WorkerExit

Spec == Init /\ [][Next]_vars

\* calls never overlap: a call starts only when no other call is in flight
SeqCallToggle(t) == AllIdle /\ CallToggle(t)
SeqCallStop(t) == AllIdle /\ CallStop(t)
SeqCallSelect(t) == AllIdle /\ CallSelect(t)

NextSeq ==
    \/ \E t \in Threads : SeqCallToggle(t) \/ SeqCallStop(t) \/ SeqCallSelect(t)
    \/ \E t \in Threads : Step(t)
    \/ WorkerExit

SpecSeq == Init /\ [][NextSeq]_vars

\* the same, with every call in flight running on: each step of a call blocks
\* for a bounded time only (wait_procs has a timeout, the grace delay is a sleep)
SpecSeqFair == SpecSeq /\ \A t \in Threads : WF_vars(Step(t))

\* the activity monitor of tray_app.py alone
InitAudio == Init /\ app = "tray"

NextAudio ==
    \/ PatchedWrite
    \/ ResetAudioStatus
    \/ MonitorPoll
    \/ Tick

SpecAudio == InitAudio /\ [][NextAudio]_vars

\* the activity monitor with time running on and every thread scheduled: the
\* monitor loop and each reset thread wake up when their sleep is over
NextAudioLive ==
    \/ NextAudio
    \/ TickPast

SpecAudioFair ==
    /\ InitAudio /\ [][NextAudioLive]_vars
    /\ WF_vars(ResetAudioStatus) /\ WF_vars(MonitorPoll)
    /\ WF_vars(Tick) /\ WF_vars(TickPast)

\* sequential calls, with handles that can become uninspectable
NextPoll ==
    \/ NextSeq
    \/ HandleInvalidated

SpecPoll == Init /\ [][NextPoll]_vars

\* the launcher up to its exit: calls one after another while it runs; the
\* exit cleanup can start while a hotkey callback is in flight, and a hotkey
\* that is still hooked can fire during the cleanup
ExitCall(t) == phase = "running" /\ (SeqCallToggle(t) \/ SeqCallStop(t) \/ SeqCallSelect(t))

LateHotkey ==
    /\ phase = "cleanup"
    /\ CallToggle("hotkey")
    /\ mode'["hotkey"] \in HookModes

ExitStep(t) ==
    /\ phase # "exited"
    /\ ~(t = "menu" /\ CleanupOver)
    /\ Step(t)

NextExit ==
    \/ ExitCleanup
    \/ ExitFinish
    \/ LateHotkey
    \/ \E t \in Threads : ExitCall(t)
    \/ \E t \in Threads : ExitStep(t)
    \/ WorkerExit

SpecExit == Init /\ [][NextExit]_vars

\* the launcher from the entry of main(): the hotkeys are registered, then
\* calls arrive one after another; a hotkey press reaches toggle_talkstream
\* only through a registered binding
BootCallToggle(t) ==
    /\ phase = "running"
    /\ SeqCallToggle(t)
    /\ t = "hotkey" => mode'[t] \in HookModes

BootCallMenu(t) == phase = "running" /\ (SeqCallStop(t) \/ SeqCallSelect(t))

NextBoot ==
    \/ RegisterHotkey
    \/ \E t \in Threads : BootCallToggle(t) \/ BootCallMenu(t)
    \/ \E t \in Threads : Step(t)
    \/ WorkerExit

SpecBoot == InitBoot /\ [][NextBoot]_vars

\* the patched PyAudio entry points with the activity monitor behind them
NextPatch ==
    \/ PatchedOpenCall
    \/ PatchedWriteCall
    \/ ResetAudioStatus
    \/ MonitorPoll
    \/ Tick

SpecPatch == InitAudio /\ [][NextPatch]_vars

\* sequential calls, with the workers writing output and the reader threads
\* draining it
NextPipe ==
    \/ NextSeq
    \/ WorkerOutput
    \/ DrainOutput

SpecPipe == Init /\ [][NextPipe]_vars

\* tray_app.py with its activity monitor, from a worker running in screen mode
\* (toggle_talkstream("screen") has started it and stored its handle) to the
\* end of that worker: menu calls one after another, while the worker plays
\* audio and the monitor loop polls
InitTray ==
    /\ app = "tray"
    /\ talkstream_process = 1
    /\ selected_window = None
    /\ window_config = CreateWindowConfig(None)
    /\ nextPid = 2
    /\ alive = {1}
    /\ cmdMode = "screen"
    /\ readers = {1}
    /\ pc = [t \in Threads |-> "idle"]
    /\ op = [t \in Threads |-> "-"]
    /\ mode = [t \in Threads |-> "-"]
    /\ proc = [t \in Threads |-> None]
    /\ kids = [t \in Threads |-> {}]
    /\ process = [t \in Threads |-> None]
    /\ wrote = [t \in Threads |-> FALSE]
    /\ sig = [t \in Threads |-> "-"]
    /\ term = [t \in Threads |-> "-"]
    /\ seen = [t \in Threads |-> "-"]
    /\ started = [t \in Threads |-> "-"]
    /\ calls = [t \in Threads |-> <<>>]
    /\ faulted = FALSE
    /\ now = 0
    /\ audio_status_queue = <<>>
    /\ audio_active = FALSE
    /\ timers = <<>>
    /\ nextPoll = 0
    /\ writes = 0
    /\ lastWrite = -1
    /\ burst = TRUE
    /\ idleEdges = 0
    /\ icon = "inactive"
    /\ pipe = [p \in Workers |-> 0]
    /\ invalid = {}
    /\ lastCall = NoCall
    /\ patched = TRUE
    /\ phase = "running"
    /\ hooks = [b \in Hotkeys |-> "on"]

TrayCall ==
    /\ alive # {}
    /\ SeqCallToggle("menu") \/ SeqCallStop("menu")

\* the steps of stop_talkstream, called from the menu or by toggle_talkstream
TrayStep ==
    \/ ToggleCheck("menu")
    \/ StopCheck("menu")
    \/ TermSignal("menu")
    \/ TermWait("menu")
    \/ StopClear("menu")
    \/ Return("menu")

\* a stream write of the worker, as the monitor is meant to see it: only a
\* worker that is alive plays audio
WorkerAudio == alive # {} /\ PatchedWrite

NextTray ==
    \/ TrayCall
    \/ TrayStep
    \/ WorkerAudio
    \/ ResetAudioStatus
    \/ MonitorPoll
    \/ Tick

SpecTray == InitTray /\ [][NextTray]_vars

\* ------------------------------------------------------------------ claims

\* C1: for any interleaving of concurrent toggle_talkstream calls, at most one
\* spawned worker is alive at any instant (no OS call having failed).
C1_AtMostOneWorkerAlive ==
    ~faulted => Cardinality(alive) <= 1

\* C2: with strictly sequential controller calls, at most one spawned worker is
\* alive, and a toggle starts a worker only when its liveness check was made
\* while no worker at all was alive (no OS call having failed).
C2_SingleInstanceSequential ==
    ~faulted =>
        /\ Cardinality(alive) < 2
        /\ \A t \in Threads :
             (op[t] = "toggle" /\ started[t] = "ok") => seen[t] = "quiet"

\* the part of a call in which stop_talkstream (or main.py's inline stop) runs
StopLabels == {"stop_check", "term_signal", "term_wait", "stop_clear"}

C4_NoDescendantLeft ==
    \A t \in Threads : term[t] \in {"gone", "killed"} => kids[t] = {}

\* C6: when the spawned worker is no longer alive at start_talkstream's check
\* after the grace delay, the start returns no handle: the slot does not hold
\* that worker after the step, and toggle_talkstream stores None.
C6_DeadWorkerNotStored ==
    [][\A t \in Threads :
         (pc[t] = "start_grace" /\ pc'[t] = "ret" /\ process[t] \notin alive) =>
             /\ talkstream_process' # process[t]
             /\ op[t] = "toggle" => talkstream_process' = None]_vars

\* C6 witness: a toggle has returned whose worker was spawned and had exited by
\* the end of the grace delay; the slot is empty.
C6_Witness ==
    \E t \in Threads :
        /\ app = "tray" /\ pc[t] = "ret" /\ op[t] = "toggle"
        /\ started[t] = "ok" /\ process[t] \notin alive
        /\ talkstream_process = None

\* the artifact C7 expects for a mode and a selected window handle
C7_Expected(m, h) ==
    IF m = "window" THEN [type |-> "window", hwnd |-> h, title |-> GetWindowText(h)]
    ELSE IF m = "screen" THEN [type |-> "fullscreen"]
    ELSE [type |-> "none"]

\* C7: whenever start_talkstream spawns the worker in mode screen, window or
\* none, window_config.json was written by this start call and matches the mode.
C7_ArtifactMatchesMode ==
    [][\A t \in Threads :
         (/\ app = "tray" /\ pc[t] = "start_spawn" /\ started'[t] = "ok"
          /\ mode[t] \in {"screen", "window", "none"}) =>
             /\ wrote[t]
             /\ window_config = C7_Expected(mode[t], selected_window)]_vars

\* C8: a stop_talkstream call that finds nothing running returns at once and
\* changes nothing: no process is spawned or signalled, the slot and the
\* selection artifact stay as they were.
C8_StopIsNoopWhenIdle ==
    [][\A t \in Threads :
         (/\ op[t] = "stop" /\ pc[t] = "stop_check" /\ pc'[t] # pc[t]
          /\ ~IsProcessRunning(talkstream_process)) =>
             /\ pc'[t] = "ret"
             /\ term'[t] = "-" /\ started'[t] = "-"
             /\ UNCHANGED <<ctl, faulted>>]_vars

\* C8 witness: a stop_talkstream call has returned without terminating anything
\* while the slot still holds the handle of a worker that exited on its own.
C8_Witness ==
    \E t \in Threads :
        /\ pc[t] = "ret" /\ op[t] = "stop" /\ term[t] = "-"
        /\ talkstream_process # None /\ ~IsProcessRunning(talkstream_process)

C10_FaultLeavesNotRunning ==
    \A t \in Threads :
        (pc[t] = "ret" /\ term[t] \in {"raises", "kill_raises"}) =>
            /\ talkstream_process = None
            /\ proc[t] \notin alive

\* C5: while all writes are less than the quiescence window apart, audio_active
\* goes Idle at most once, and only when the window of the latest write is over.
C5_SingleIdleAfterWindow ==
    /\ [](burst => idleEdges <= 1)
    /\ [][(burst /\ audio_active /\ ~audio_active') =>
              now >= lastWrite + QuiescenceTicks]_vars

\* C11: once the worker has been stopped and the monitor has nothing left to
\* process (no call in flight, no worker alive, status queue drained, no reset
\* thread pending), the activity indicator shows Idle: audio_active is False
\* and the tray icon is the inactive one.
C11_IdleAfterShutdown ==
    (/\ AllIdle /\ alive = {}
     /\ audio_status_queue = <<>> /\ timers = <<>>) =>
        /\ ~audio_active
        /\ icon = "inactive"

\* C12: a running worker whose output pipes are full has reader threads that
\* drain them, in both launchers, so its blocked write will go through.
C12_FullPipeHasReaders ==
    \A p \in alive : pipe[p] = PipeCap => p \in readers

\* C13: when the instrumentation raised inside patched_open or patched_write,
\* the caller gets what the original call gave: the result returned is the
\* outcome of the original's invocation for this call.
C13_FaultFallsThrough ==
    lastCall.fault \in {"instr", "put", "thread"} =>
        lastCall.result = lastCall.first

\* C14: when keyboard.add_hotkey refused a binding, the program has not ended
\* for it, in either launcher: main() goes on, and once the launcher is running
\* every other binding of the launcher is registered or was refused itself.
C14_RefusedHotkeyContinues ==
    (\E b \in Hotkeys : hooks[b] = "refused") =>
        /\ phase # "crashed"
        /\ phase = "running" => \A b \in Bindings : hooks[b] \in {"on", "refused"}

\* C15: when the worker script is missing, the start spawns no process and is
\* not retried (the step that finds the script missing is the last of the
\* start and creates no worker), and after the enclosing toggle the slot is
\* empty and the controller is not running.
C15_MissingScriptNoSpawn ==
    /\ [][\A t \in Threads :
            (pc[t] = "start_prepare" /\ started'[t] = "no_script") =>
                /\ pc'[t] = "ret"
                /\ nextPid' = nextPid /\ alive' = alive
                /\ process'[t] = None]_vars
    /\ [](\A t \in Threads :
            (pc[t] = "ret" /\ op[t] = "toggle" /\ started[t] = "no_script") =>
                /\ talkstream_process = None
                /\ ~IsProcessRunning(talkstream_process))

\* C15 witness: a toggle has returned from a start that found the script
\* missing, after an earlier worker had been spawned and is gone; the slot is
\* empty.
C15_Witness ==
    \E t \in Threads :
        /\ pc[t] = "ret" /\ op[t] = "toggle" /\ started[t] = "no_script"
        /\ nextPid = 2 /\ alive = {}
        /\ talkstream_process = None

\* C16: is_process_running is False for the empty handle, False for a handle
\* whose inspection fails, and otherwise True exactly when the process has not
\* exited; and toggle_talkstream's check, which calls it on the slot, always
\* completes and takes the stop branch exactly in that case.
C16_IsRunningTotal ==
    /\ [](/\ ~IsProcessRunning(None)
          /\ \A p \in Workers :
               /\ Poll(p) = "raises" => ~IsProcessRunning(p)
               /\ Poll(p) # "raises" => (IsProcessRunning(p) <=> p \in alive))
    /\ [][\A t \in Threads :
            (pc[t] = "tg_check" /\ pc'[t] # "tg_check") =>
                (pc'[t] \in {"stop_check", "term_signal"} <=>
                    /\ talkstream_process # None
                    /\ talkstream_process \notin invalid
                    /\ talkstream_process \in alive)]_vars

\* C16 witness: a toggle has taken the start branch while the slot holds the
\* handle of a worker that is alive but whose poll() raises.
C16_Witness ==
    \E t \in Threads :
        /\ op[t] = "toggle" /\ pc[t] \in {"start_prepare", "launch_check"}
        /\ talkstream_process \in invalid
        /\ talkstream_process \in alive

\* C17: when select_window has restarted the worker and the new worker is
\* running, it runs in window mode on the selected window and the slot holds
\* its handle, so that the controller sees it as running.
C17_RestartIsOwned ==
    \A t \in Threads :
        (/\ pc[t] = "ret" /\ op[t] = "select"
         /\ started[t] = "ok" /\ process[t] \in alive) =>
            /\ cmdMode = "window"
            /\ window_config = CreateWindowConfig(selected_window)
            /\ talkstream_process = process[t]
            /\ IsProcessRunning(talkstream_process)

\* C18: once the launcher has exited, no worker it spawned is alive (no OS call
\* having failed).
C18_NoWorkerLeftAtExit ==
    (phase = "exited" /\ ~faulted) => alive = {}

\* C19: the patched writes being finitely many, audio_active eventually
\* becomes False and stays False.
C19_FlagConverges == <>[](~audio_active)

\* C19 witness: after at least two writes everything has been processed (the
\* queue is drained, no reset thread is pending), the flag has been Active and
\* is False.
C19_Witness ==
    /\ writes >= 2 /\ idleEdges >= 1
    /\ audio_status_queue = <<>> /\ timers = <<>>
    /\ ~audio_active

\* the positions of calls[t] holding a request c on target `on`
C20_At(t, c, on) ==
    {i \in DOMAIN calls[t] : calls[t][i].call = c /\ calls[t][i].target = on}

C21_OriginalInvokedOnce ==
    lastCall.fn \in {"open", "write"} => lastCall.orig = 1

\* C22: the backlog of audio_status_queue stays within a fixed number of polls
\* however many patched writes there are: the entries waiting never outnumber
\* the polls of one quiescence window, so that what the monitor publishes is
\* never older than that.
C22_BacklogBounded ==
    Len(audio_status_queue) <= QuiescenceTicks \div PollTicks

\* C23: once the owned worker has exited on its own (the slot holds the handle
\* of a worker that is not alive), is_process_running is False for the slot, a
\* stop_talkstream call returns at once and terminates nothing, the next
\* toggle_talkstream takes the start branch, and when the worker it starts is
\* running at the end of the toggle that worker is the only one alive and the
\* slot holds its handle.
C23_RecoversAfterWorkerExit ==
    /\ []((talkstream_process # None /\ talkstream_process \notin alive) =>
             ~IsProcessRunning(talkstream_process))
    /\ [][\A t \in Threads :
            (/\ op[t] = "stop" /\ pc[t] = "stop_check" /\ pc'[t] # pc[t]
             /\ talkstream_process # None /\ talkstream_process \notin alive) =>
                /\ pc'[t] = "ret" /\ term'[t] = "-"
                /\ alive' = alive /\ faulted' = faulted]_vars
    /\ [][\A t \in Threads :
            (/\ pc[t] = "tg_check" /\ pc'[t] # pc[t]
             /\ talkstream_process # None /\ talkstream_process \notin alive) =>
                pc'[t] \in {"start_prepare", "launch_check"}]_vars
    /\ [][\A t \in Threads :
            (/\ op[t] = "toggle" /\ seen[t] # "running"
             /\ pc[t] # "ret" /\ pc'[t] = "ret"
             /\ talkstream_process # None /\ talkstream_process \notin alive
             /\ started'[t] = "ok" /\ process'[t] \in alive') =>
                /\ alive' = {process'[t]}
                /\ talkstream_process' = process'[t]]_vars

====
